---- MODULE Spec2Model ----
(***************************************************************************)
(* Agent orchestration engine of PortfolioManagerAPI-Python:               *)
(*   - ConversationThreadService (conversation_thread_service.py)          *)
(*   - LangGraphAgentService     (ai/langgraph_agent_service.py)           *)
(* Each await on the database session is a scheduling point, so every      *)
(* database round trip of the thread service is an action of its own.      *)
(***************************************************************************)
EXTENDS Integers, Sequences, FiniteSets, TLC

(***************************************************************************)
(* Bounds of the model.                                                    *)
(***************************************************************************)
MaxThreads == 2        \* rows the conversation_threads table may hold
MaxCalls == 3          \* thread-service calls started in one behaviour
MaxTicks == 2          \* clock advances in one behaviour
MaxToolCalls == 2      \* tool calls one model output may request
MaxSuperSteps == 3     \* graph steps one run may take (the library's recursion_limit)
MaxEvents == 4         \* events of the sequence handed to the two read modes
MaxTickers == 11       \* tickers of the largest price batch
MaxArticles == 6       \* articles one get_market_context output may carry
MaxVoiceEvents == 2    \* records of the tool trace handed to the voice adapter

Accounts == {1, 2}     \* authenticated account ids
Callers == {1, 2}      \* requests that may be in flight together
SeqCallers == {1}      \* the one request at a time of the sequential specification

(***************************************************************************)
(* Program constants.                                                      *)
(***************************************************************************)
\* thread_id: Optional[int] = None; `if thread_id:` also treats 0 as absent
None == 0
\* INACTIVITY_THRESHOLD = timedelta(minutes=30), in seconds
INACTIVITY_THRESHOLD == 1800

\* clock advances tried by the model: one second, and the whole threshold
TickSteps == {1, INACTIVITY_THRESHOLD}

VARIABLES
    threads,    \* app.conversation_threads: row id |-> row (id = position)
    now,        \* wall clock, seconds
    ticks,      \* clock advances made so far
    calls,      \* per caller: the in-flight thread-service call and its locals
    started,    \* thread-service calls started so far
    history,    \* completed thread-service calls, in completion order
    bindings,   \* module-level tool bindings (_holding_service, _account_id, ...)
    runs,       \* per request: the stream_chat / run_chat run and its graph state
    checkpoints, \* checkpoint store: key |-> latest saved message list
    events,     \* the event sequence graph.astream_events has produced so far
    streamed,   \* _stream_graph_events: events consumed, chunks yielded
    collected,  \* _collect_graph_response: events consumed, its locals
    batches,    \* per price batch: get_real_time_prices_async and its sub-fetches
    semaphores, \* per EodMarketDataTool instance: the value of self._semaphore
    voice       \* VoiceResponseAdapter: its tool trace and the extracted sources

threadVars == <<threads, now, ticks, calls, started, history>>
agentVars == <<bindings, runs, checkpoints>>
bridgeVars == <<events, streamed, collected>>
toolVars == <<batches, semaphores, voice>>
vars == <<threads, now, ticks, calls, started, history, bindings, runs, checkpoints,
          events, streamed, collected, batches, semaphores, voice>>

(***************************************************************************)
(* datetime values: the instant and whether the value carries a tzinfo.    *)
(***************************************************************************)
TypeError == "TypeError"

\* datetime.now(timezone.utc)
UtcNow(t) == [t |-> t, aware |-> TRUE]

\* datetime.replace(tzinfo=None)
ReplaceTzinfoNone(d) == [d EXCEPT !.aware = FALSE]

\* datetime.__sub__: an aware and a naive datetime cannot be subtracted
DatetimeSub(a, b) == IF a.aware = b.aware THEN a.t - b.t ELSE -1

DatetimeSubRaises(a, b) == a.aware # b.aware

\* line 68: datetime.now(timezone.utc) - last_activity.replace(tzinfo=None)
TimeSinceActivity(t, last_activity) ==
    DatetimeSub(UtcNow(t), ReplaceTzinfoNone(last_activity))

TimeSinceActivityRaises(t, last_activity) ==
    DatetimeSubRaises(UtcNow(t), ReplaceTzinfoNone(last_activity))

(***************************************************************************)
(* Queries and row updates of ConversationThreadService.                   *)
(***************************************************************************)
ThreadIds == 1..Len(threads)

\* _get_thread_by_id with the account filter dropped (mutant)
GetThreadByIdAnyAccount(thread_id, account_id) ==
    IF thread_id \in ThreadIds THEN thread_id ELSE None

\* _get_thread_by_id: WHERE id = thread_id AND account_id = account_id
GetThreadById(thread_id, account_id) ==
    IF thread_id \in ThreadIds /\ threads[thread_id].account_id = account_id
    THEN thread_id ELSE None

ActiveThreadsOf(account_id) ==
    {i \in ThreadIds : threads[i].account_id = account_id /\ threads[i].is_active}

\* _get_most_recent_active_thread that finds nothing (mutant)
MostRecentActiveNone(account_id) == {None}

\* _get_most_recent_active_thread: ORDER BY last_activity DESC LIMIT 1.
\* The rows the query may return (ties are broken by the database).
MostRecentActive(account_id) ==
    LET act == ActiveThreadsOf(account_id) IN
    IF act = {} THEN {None}
    ELSE {i \in act : \A j \in act : threads[j].last_activity.t <= threads[i].last_activity.t}

\* _create_new_thread: the inserted row
NewThread(account_id) ==
    [account_id |-> account_id, last_activity |-> UtcNow(now), is_active |-> TRUE]

IdleCall == [pc |-> "idle", op |-> "none", account_id |-> None, thread_id |-> None,
             thread |-> None, ret |-> None, created |-> FALSE, closed |-> FALSE,
             seen |-> None, idle |-> 0, at |-> 0]

\* thread_id arguments tried: absent, every stored id, and one id not stored
ThreadIdArgs == 0..(Len(threads) + 1)

InFlight == {c \in Callers : calls[c].pc # "idle"}

(***************************************************************************)
(* The event bridge: one event of graph.astream_events at a time.          *)
(***************************************************************************)
\* _stream_graph_events, lines 385-392 (texts without their emoji and "\n\n")
tool_status_messages ==
    ("get_portfolio_holdings" :> "Fetching your portfolio holdings...") @@
    ("analyze_portfolio_performance" :> "Analyzing portfolio performance...") @@
    ("compare_portfolio_performance" :> "Comparing portfolio performance...") @@
    ("get_market_context" :> "Getting market context...") @@
    ("get_market_sentiment" :> "Analyzing market sentiment...") @@
    ("get_real_time_prices" :> "Fetching real-time stock prices...")

\* _stream_graph_events, lines 394-401
tool_completion_messages ==
    ("get_portfolio_holdings" :> "Portfolio data retrieved") @@
    ("analyze_portfolio_performance" :> "Analysis complete") @@
    ("compare_portfolio_performance" :> "Comparison complete") @@
    ("get_market_context" :> "Market context retrieved") @@
    ("get_market_sentiment" :> "Sentiment analysis complete") @@
    ("get_real_time_prices" :> "Prices retrieved")

\* an event of astream_events(version="v2"): its "event" tag, its "name", the
\* chunk content of a model delta, the input and the output of a tool run
Event(event, name, content, input, output) ==
    [event |-> event, name |-> name, content |-> content, input |-> input,
     output |-> output]

OnChatModelStream(content) == Event("on_chat_model_stream", "", content, None, None)
OnToolStart(name, input) == Event("on_tool_start", name, "", input, None)
OnToolEnd(name, output) == Event("on_tool_end", name, "", None, output)
\* any event the match statement has no case for
OnChainEnd == Event("on_chain_end", "", "", None, None)

\* a loop body that yields a chunk for every event (mutant)
StreamChunksEcho(e) ==
    CASE e.event = "on_chat_model_stream" -> <<e.content>>
      [] e.event = "on_tool_start" -> <<tool_status_messages["get_portfolio_holdings"]>>
      [] e.event = "on_tool_end" -> <<tool_completion_messages["get_portfolio_holdings"]>>
      [] OTHER -> <<"">>

\* one pass of the loop body of _stream_graph_events, lines 418-469: the
\* chunks the event makes the generator yield
StreamChunks(e) ==
    CASE e.event = "on_chat_model_stream" ->
           IF e.content # "" THEN <<e.content>> ELSE <<>>
      [] e.event = "on_tool_start" ->
           IF e.name \in DOMAIN tool_status_messages
           THEN <<tool_status_messages[e.name]>> ELSE <<>>
      [] e.event = "on_tool_end" ->
           IF e.name \in DOMAIN tool_completion_messages
           THEN <<tool_completion_messages[e.name]>> ELSE <<>>
      [] OTHER -> <<>>

\* lines 635-636: final_text_chunks = [], tool_events = []
NoCollection == [final_text_chunks |-> <<>>, tool_events |-> <<>>]

\* lines 700-703: the most recent record of the name whose output is None
UnmatchedRecords(tool_events, name) ==
    {i \in 1..Len(tool_events) :
        tool_events[i].name = name /\ tool_events[i].output = None}

Max(S) == CHOOSE x \in S : \A y \in S : y <= x

\* a search from the front of the list (mutant)
OldestUnmatched(tool_events, name) ==
    CHOOSE i \in UnmatchedRecords(tool_events, name) :
        \A j \in UnmatchedRecords(tool_events, name) : i <= j

\* lines 700-703: `for te in reversed(tool_events)` stops at the first match
MostRecentUnmatched(tool_events, name) == Max(UnmatchedRecords(tool_events, name))

\* a loop body that gathers no text (mutant)
CollectEventNoText(st, e) == st

\* one pass of the loop body of _collect_graph_response, lines 652-703
CollectEvent(st, e) ==
    CASE e.event = "on_chat_model_stream" ->
           IF e.content # ""
           THEN [st EXCEPT !.final_text_chunks = Append(@, e.content)]
           ELSE st
      [] e.event = "on_tool_start" ->
           [st EXCEPT !.tool_events =
               Append(@, [name |-> e.name, input |-> e.input, output |-> None])]
      [] e.event = "on_tool_end" ->
           LET open == UnmatchedRecords(st.tool_events, e.name) IN
           IF open = {} THEN st
           ELSE [st EXCEPT !.tool_events[MostRecentUnmatched(st.tool_events, e.name)].output =
                               e.output]
      [] OTHER -> st

\* lines 404-405 (638-639): active_tool_spans = {}; with them the spans
\* started and ended so far and the metrics recorded, by tool name. A span is
\* named by the position of the event that started it.
NoTelemetry == [active_tool_spans |-> <<>>, started |-> {}, ended |-> {},
                metrics |-> <<>>]

\* the span and metric bookkeeping of one pass of either loop body, lines
\* 426-463 and 658-696, for the event at position pos
TraceEvent(tel, e, pos) ==
    CASE e.event = "on_tool_start" ->
           [tel EXCEPT !.active_tool_spans =
                           [n \in DOMAIN @ \cup {e.name} |-> IF n = e.name THEN pos ELSE @[n]],
                       !.started = @ \cup {pos}]
      [] e.event = "on_tool_end" ->
           IF e.name \in DOMAIN tel.active_tool_spans
           THEN [tel EXCEPT !.active_tool_spans =
                                [n \in DOMAIN @ \ {e.name} |-> @[n]],
                            !.ended = @ \cup {tel.active_tool_spans[e.name]},
                            !.metrics = Append(@, e.name)]
           ELSE tel
      [] OTHER -> tel

RECURSIVE StreamAll(_)
\* the chunks _stream_graph_events yields for a whole event sequence
StreamAll(evs) ==
    IF evs = <<>> THEN <<>> ELSE StreamChunks(Head(evs)) \o StreamAll(Tail(evs))

RECURSIVE CollectAll(_, _)
\* the locals of _collect_graph_response after a whole event sequence
CollectAll(st, evs) ==
    IF evs = <<>> THEN st ELSE CollectAll(CollectEvent(st, Head(evs)), Tail(evs))

\* "".join(final_text_chunks), line 706: a text is kept as the sequence of
\* the non-empty pieces it is the concatenation of
Join(chunks) == SelectSeq(chunks, LAMBDA c : c # "")

(***************************************************************************)
(* LangGraphAgentService: messages, tool bindings, runs.                   *)
(***************************************************************************)
START == "__start__"
END == "__end__"

\* the tools whose module-level binding carries the account
\* (initialize_holdings_tool, initialize_analysis_tool, initialize_comparison_tool)
BoundTools == {"get_portfolio_holdings", "analyze_portfolio_performance",
               "compare_portfolio_performance"}

\* the tool names the model is let to request
ToolChoices == {"get_portfolio_holdings"}

NoBinding == [account_id |-> None, service |-> None]

Msg(type, tool_calls, name, call, account_id, service, content) ==
    [type |-> type, tool_calls |-> tool_calls, name |-> name, call |-> call,
     account_id |-> account_id, service |-> service, content |-> content]

SystemMessage == Msg("system", <<>>, "", None, None, None, "")
HumanMessage == Msg("human", <<>>, "", None, None, None, "")
AIMessage(tool_calls) == Msg("ai", tool_calls, "", None, None, None, "")
\* the result of tool call number `call` of the request, as the tool produced it
ToolMessage(name, call, binding, content) ==
    Msg("tool", <<>>, name, call, binding.account_id, binding.service, content)

\* the two entry points of a run: stream_chat and run_chat
Modes == {"stream", "collect"}

\* what a tool's backend (holding service, market-data API) does when called
BackendOutcomes == {"ok", "fails"}

\* a tool body whose failure escapes instead of being returned
ToolReturnRaising(backend) == IF backend = "ok" THEN "Result" ELSE "raise"

\* the body of a tool, e.g. get_portfolio_holdings lines 44-100: the result
\* dict, or on any exception of the backend a dict with an "Error" entry
ToolReturn(backend) == IF backend = "ok" THEN "Result" ELSE "Error"

\* the exceptions a run may meet, by what str(e) gives
ModelError == "ModelError"
OperationalError == "OperationalError"
GraphRecursionError == "GraphRecursionError"
ToolException == "ToolException"
Exceptions == {TypeError, ModelError, OperationalError, GraphRecursionError,
               ToolException}

\* f"I apologize, but I encountered an error: {str(e)}", lines 611 and 774
Apology ==
    (TypeError :> "I apologize, but I encountered an error: TypeError") @@
    (ModelError :> "I apologize, but I encountered an error: ModelError") @@
    (OperationalError :> "I apologize, but I encountered an error: OperationalError") @@
    (GraphRecursionError :> "I apologize, but I encountered an error: GraphRecursionError") @@
    (ToolException :> "I apologize, but I encountered an error: ToolException")

\* what run_chat gives back: (final_text, tool_events)
NoReply == [final_text |-> <<>>, tool_events |-> <<>>]

IdleRun == [phase |-> "idle", node |-> "none", req |-> None, account_id |-> None,
            thread_id |-> None, thread |-> None, messages |-> <<>>, steps |-> 0,
            sent |-> <<>>, invoked |-> {}, outcome |-> "none", limit |-> FALSE,
            mode |-> "none", conn |-> None, exc |-> "", events |-> <<>>,
            chunks |-> <<>>, st |-> NoCollection, reply |-> NoReply,
            tool_failures |-> 0]

\* the chat requests of a behaviour, in order of arrival; request r resolves
\* its thread as caller r, and r names its request-scoped services
Runs == Callers

\* a key without the separator between the two ids (mutant)
CheckpointKeyUnseparated(account_id, thread_id) ==
    "account_" \o ToString(account_id) \o ToString(thread_id)

\* lines 549-553: f"account_{account_id}_thread_{thread.id}"
CheckpointKey(account_id, thread_id) ==
    "account_" \o ToString(account_id) \o "_thread_" \o ToString(thread_id)

CheckpointKeys == {CheckpointKey(a, t) : a \in Accounts, t \in 1..MaxThreads}

(***************************************************************************)
(* EodMarketDataTool: a price batch and its per-ticker sub-fetches.        *)
(***************************************************************************)
\* eod_market_data_tool.py line 27: asyncio.Semaphore(10)
SEMAPHORE_LIMIT == 10

\* the batches that may run together
PriceBatches == {1, 2}

\* EodMarketDataTool instances: _prepare_chat_context (lines 502-508) builds
\* one for every chat request; the holdings route keeps one of its own
\* (holdings.py lines 31-39, lru_cache)
EodTools == {1, 2}

\* what one sub-fetch meets: a 200 response with a price, a 200 response
\* without a parsable price, another status, an exception of client.get
FetchOutcomes == {"price", "no_price", "non_200", "exception"}

\* a fetch that stores a price for every response it gets (mutant)
StoresAnyResponse(outcome) == outcome # "exception"

\* _fetch_ticker_price, lines 85-100: price_dict[ticker] is assigned only for
\* status 200 with a price; every other outcome is logged
StoresPrice(outcome) == outcome = "price"

\* lines 99-100: `except Exception` logs what the request or the parsing
\* raised; nothing a sub-fetch meets leaves its task as an exception
EscapesFetch(outcome) == FALSE

\* the fetch succeeded: the endpoint answered 200 with a parsable price
FetchSucceeded(outcome) == outcome = "price"

\* how many tickers a batch may be called with: none, one, or a list longer
\* than the semaphore is wide; the second batch is a short one
TickerCounts(b) == IF b = 1 THEN {0, 1, MaxTickers} ELSE {0, 1, 2}

\* price_dict = {} (line 49): whether the watched ticker is a key, and how
\* many of the other tickers are
NoPrices == [watched |-> FALSE, others |-> 0]

\* A batch before it is called. The sub-fetch of the first ticker is followed
\* on its own (watched); the sub-fetches of the other tickers are counted:
\* waiting at `async with self._semaphore`, in flight inside it, succeeded.
IdleBatch == [pc |-> "idle", tool |-> None, n |-> 0, watched |-> "none",
              waiting |-> 0, inflight |-> 0, ok |-> 0, failed |-> 0,
              price_dict |-> NoPrices, result |-> NoPrices, raised |-> FALSE]

(***************************************************************************)
(* VoiceResponseAdapter: the tool trace it is built with.                  *)
(***************************************************************************)
\* voice_adapter.py line 106: articles[:5]
ARTICLE_LIMIT == 5

\* names of the records of a tool trace
VoiceToolNames == {"get_market_context", "get_portfolio_holdings"}

\* an adapter before _extract_sources is called
IdleVoice == [tool_events |-> <<>>, sources |-> <<>>, done |-> FALSE]

(***************************************************************************)
(* Initial state: an empty thread store, no binding, nothing in flight.    *)
(***************************************************************************)
Init ==
    /\ threads = <<>>
    /\ now = 0
    /\ ticks = 0
    /\ calls = [c \in Callers |-> IdleCall]
    /\ started = 0
    /\ history = <<>>
    /\ bindings = [n \in BoundTools |-> NoBinding]
    /\ runs = [r \in Runs |-> IdleRun]
    /\ checkpoints = [k \in CheckpointKeys |-> <<>>]
    /\ events = <<>>
    /\ streamed = [pos |-> 0, chunks |-> <<>>, tel |-> NoTelemetry]
    /\ collected = [pos |-> 0, st |-> NoCollection, tel |-> NoTelemetry]
    /\ batches = [b \in PriceBatches |-> IdleBatch]
    /\ semaphores = [i \in EodTools |-> SEMAPHORE_LIMIT]
    /\ voice = IdleVoice

(***************************************************************************)
(* get_or_create_active_thread, one action per database round trip.        *)
(***************************************************************************)
\* entry, lines 51-64: with a thread_id look it up, else select the active one
EnterGetOrCreate(c, account_id, thread_id) ==
    /\ calls[c].pc = "idle"
    /\ started < MaxCalls
    /\ Len(threads) + Cardinality(InFlight) < MaxThreads
    /\ calls' = [calls EXCEPT ![c] =
                   [IdleCall EXCEPT !.pc = IF thread_id # None THEN "by_id" ELSE "select",
                                    !.op = "get_or_create",
                                    !.account_id = account_id,
                                    !.thread_id = thread_id,
                                    !.at = now]]
    /\ started' = started + 1
    /\ UNCHANGED <<threads, now, ticks, history>>

\* a direct call of get_or_create_active_thread
BeginGetOrCreate(c, account_id, thread_id) ==
    /\ EnterGetOrCreate(c, account_id, thread_id)
    /\ UNCHANGED <<agentVars, bridgeVars, toolVars>>

\* close_thread entry, line 227
BeginCloseThread(c, account_id, thread_id) ==
    /\ calls[c].pc = "idle"
    /\ started < MaxCalls
    /\ thread_id # None
    /\ calls' = [calls EXCEPT ![c] =
                   [IdleCall EXCEPT !.pc = "close_by_id",
                                    !.op = "close",
                                    !.account_id = account_id,
                                    !.thread_id = thread_id,
                                    !.at = now]]
    /\ started' = started + 1
    /\ UNCHANGED <<threads, now, ticks, history, agentVars, bridgeVars, toolVars>>

\* lines 53-61 and 227-233: await self._get_thread_by_id(thread_id, account_id)
GetThreadByIdStep(c) ==
    LET k == calls[c]
        found == GetThreadById(k.thread_id, k.account_id) IN
    /\ k.pc \in {"by_id", "close_by_id"}
    /\ calls' = [calls EXCEPT ![c] =
          IF k.pc = "by_id"
          THEN IF found # None /\ threads[found].is_active
               THEN [k EXCEPT !.pc = "bump", !.thread = found]
               ELSE [k EXCEPT !.pc = "select"]
          ELSE IF found # None
               THEN [k EXCEPT !.pc = "deactivate", !.thread = found]
               ELSE [k EXCEPT !.pc = "done", !.closed = FALSE]]
    /\ UNCHANGED <<threads, now, ticks, started, history, agentVars, bridgeVars, toolVars>>

\* lines 64-84: await self._get_most_recent_active_thread(account_id), then the
\* idle-time computation and the branch on it
SelectActiveStep(c) ==
    LET k == calls[c] IN
    /\ k.pc = "select"
    /\ \E found \in MostRecentActive(k.account_id) :
         calls' = [calls EXCEPT ![c] =
           IF found = None
           THEN [k EXCEPT !.pc = "create"]
           ELSE LET seenk == [k EXCEPT !.thread = found, !.seen = found,
                                       !.idle = now - threads[found].last_activity.t]
                IN
                IF TimeSinceActivityRaises(now, threads[found].last_activity)
                THEN [seenk EXCEPT !.pc = "raised"]
                ELSE IF TimeSinceActivity(now, threads[found].last_activity)
                          > INACTIVITY_THRESHOLD
                     THEN [seenk EXCEPT !.pc = "deactivate"]
                     ELSE [seenk EXCEPT !.pc = "bump"]]
    /\ UNCHANGED <<threads, now, ticks, started, history, agentVars, bridgeVars, toolVars>>

\* _update_last_activity (lines 165-174), then `return thread`
UpdateLastActivityStep(c) ==
    LET k == calls[c] IN
    /\ k.pc = "bump"
    /\ threads' = [threads EXCEPT ![k.thread].last_activity = UtcNow(now)]
    /\ calls' = [calls EXCEPT ![c] = [k EXCEPT !.pc = "done", !.ret = k.thread]]
    /\ UNCHANGED <<now, ticks, started, history, agentVars, bridgeVars, toolVars>>

\* _deactivate_thread (lines 176-186); close_thread returns True after it,
\* get_or_create_active_thread goes on to create a new thread
DeactivateThreadStep(c) ==
    LET k == calls[c] IN
    /\ k.pc = "deactivate"
    /\ threads' = [threads EXCEPT ![k.thread].is_active = FALSE]
    /\ calls' = [calls EXCEPT ![c] =
                   IF k.op = "close" THEN [k EXCEPT !.pc = "done", !.closed = TRUE]
                   ELSE [k EXCEPT !.pc = "create"]]
    /\ UNCHANGED <<now, ticks, started, history, agentVars, bridgeVars, toolVars>>

\* _create_new_thread (lines 138-163): insert, commit, refresh, return
CreateNewThreadStep(c) ==
    LET k == calls[c] IN
    /\ k.pc = "create"
    /\ threads' = Append(threads, NewThread(k.account_id))
    /\ calls' = [calls EXCEPT ![c] =
                   [k EXCEPT !.pc = "done", !.ret = Len(threads) + 1, !.created = TRUE]]
    /\ UNCHANGED <<now, ticks, started, history, agentVars, bridgeVars, toolVars>>

\* what a completed call leaves behind for its caller
Outcome(k) == [op |-> k.op, account_id |-> k.account_id, thread_id |-> k.thread_id,
               raised |-> k.pc = "raised", ret |-> k.ret, created |-> k.created,
               closed |-> k.closed, seen |-> k.seen, idle |-> k.idle, at |-> k.at]

\* the two most recently completed calls, oldest first
Remember(h, k) == IF Len(h) < 2 THEN Append(h, Outcome(k)) ELSE <<h[2], Outcome(k)>>

\* the call returns (or its exception reaches the caller)
ReturnStep(c) ==
    /\ calls[c].pc \in {"done", "raised"}
    /\ history' = Remember(history, calls[c])
    /\ calls' = [calls EXCEPT ![c] = IdleCall]
    /\ UNCHANGED <<threads, now, ticks, started, agentVars, bridgeVars, toolVars>>

\* the wall clock advances
Tick ==
    /\ ticks < MaxTicks
    /\ \E d \in TickSteps : now' = now + d
    /\ ticks' = ticks + 1
    /\ UNCHANGED <<threads, calls, started, history, agentVars, bridgeVars, toolVars>>

\* the wall clock advances between two calls
TickBetweenCalls == InFlight = {} /\ Tick

ThreadStep(c) ==
    \/ \E a \in Accounts, t \in ThreadIdArgs : BeginGetOrCreate(c, a, t)
    \/ \E a \in Accounts, t \in ThreadIdArgs : BeginCloseThread(c, a, t)
    \/ GetThreadByIdStep(c)
    \/ SelectActiveStep(c)
    \/ UpdateLastActivityStep(c)
    \/ DeactivateThreadStep(c)
    \/ CreateNewThreadStep(c)
    \/ ReturnStep(c)

\* Concurrent requests: the calls interleave at every await
ThreadNext == Tick \/ \E c \in Callers : ThreadStep(c)

SpecThread == Init /\ [][ThreadNext]_vars

\* Non-overlapping calls: a call starts only when no other call is in flight
ThreadSeqNext == TickBetweenCalls \/ \E c \in SeqCallers : ThreadStep(c)

SpecThreadSeq == Init /\ [][ThreadSeqNext]_vars

(***************************************************************************)
(* The reasoning/tool graph of one run.                                    *)
(***************************************************************************)
Last(q) == q[Len(q)]

\* the outputs the model may give: a final answer (no tool call) or a list
\* of requested tool calls
ModelResponses == UNION {[1..n -> ToolChoices] : n \in 0..MaxToolCalls}

\* call_model, line 184: not any(isinstance(m, (AIMessage, ToolMessage)) ...)
IsFirstMessage(messages) ==
    ~\E i \in 1..Len(messages) : messages[i].type \in {"ai", "tool"}

\* call_model, lines 182-186: the list handed to model_with_tools.invoke
LLMInput(messages) ==
    IF IsFirstMessage(messages) THEN <<SystemMessage>> \o messages ELSE messages

\* what a REASON step sent, as the properties read it
SentSummary(messages) ==
    LET input == LLMInput(messages) IN
    [nsys |-> Cardinality({i \in 1..Len(input) : input[i].type = "system"}),
     sysfirst |-> input[1].type = "system",
     injected |-> IsFirstMessage(messages)]

\* a routing function that always continues to the tools node (mutant)
should_continue_always(messages) == "tools"

\* should_continue, lines 318-323
should_continue(messages) ==
    IF Last(messages).tool_calls # <<>> THEN "tools" ELSE END

\* a tools node that answers the requested calls last-to-first (mutant)
ToolNodeReversed(tool_calls, backend) ==
    [k \in 1..Len(tool_calls) |->
        LET j == Len(tool_calls) + 1 - k IN
        ToolMessage(tool_calls[j], j, bindings[tool_calls[j]], ToolReturn(backend[j]))]

\* ToolNode(tools), line 353: one ToolMessage per requested call, in request
\* order; each tool reads its module-level binding when it runs and answers
\* with what its body returns for the backend's outcome
ToolNode(tool_calls, backend) ==
    [k \in 1..Len(tool_calls) |->
        ToolMessage(tool_calls[k], k, bindings[tool_calls[k]], ToolReturn(backend[k]))]

Invocations(results) ==
    {[name |-> results[k].name, account_id |-> results[k].account_id,
      service |-> results[k].service] : k \in 1..Len(results)}

RunKey(r) == CheckpointKey(runs[r].account_id, runs[r].thread)

\* the events astream_events gives for one model call: the content deltas of
\* an answer, or the empty-content delta of a tool-call decision
ModelEvents(response) ==
    IF response = <<>> THEN <<OnChatModelStream("Hel"), OnChatModelStream("lo")>>
    ELSE <<OnChatModelStream("")>>

RECURSIVE ToolEvents(_, _)
\* the events astream_events gives for the tools node: start and end of each
\* tool run, from the k-th on
ToolEvents(results, k) ==
    IF k > Len(results) THEN <<>>
    ELSE <<OnToolStart(results[k].name, k), OnToolEnd(results[k].name, k)>>
         \o ToolEvents(results, k + 1)

\* a reader that puts what it reads in front of what it has (mutant)
BridgePrepend(run, evs) ==
    IF run.mode = "stream"
    THEN [run EXCEPT !.events = @ \o evs, !.chunks = StreamAll(evs) \o @]
    ELSE [run EXCEPT !.events = @ \o evs, !.st = CollectAll(NoCollection, evs \o run.events)]

\* the read mode of the run takes the events of a step, in their order:
\* _stream_graph_events (stream_chat, lines 603-604) yields their chunks,
\* _collect_graph_response (run_chat, line 762) gathers them
Bridge(run, evs) ==
    IF run.mode = "stream"
    THEN [run EXCEPT !.events = @ \o evs, !.chunks = @ \o StreamAll(evs)]
    ELSE [run EXCEPT !.events = @ \o evs, !.st = CollectAll(@, evs)]

\* an error boundary that hands back the trace gathered so far (mutant)
RunChatExceptKeepTrace(run, e) ==
    [final_text |-> <<Apology[e]>>, tool_events |-> run.st.tool_events]

\* run_chat, lines 769-774: return f"I apologize, ...: {str(e)}", []
RunChatExcept(run, e) == [final_text |-> <<Apology[e]>>, tool_events |-> <<>>]

\* AsyncPostgresSaver.from_conn_string(self.postgres_url), lines 595 and 754:
\* every run opens a connection of its own
OpenCheckpointer(r) == r

\* a context manager that keeps its connection on exit (mutant)
AsyncWithExitLeak(conn) == conn

\* leaving the `async with ... as checkpointer` block, by return or by raise
AsyncWithExit(conn) == None

\* a store that keeps the writes of a step that failed (mutant)
CheckpointPartial(saved, pending) == saved \o pending

\* the checkpoint of a key when a step raises: the writes of the step are
\* dropped, the checkpoint of the last completed step stays
CheckpointOnAbort(saved, pending) == saved

\* the `except Exception` of stream_chat (606-611) and run_chat (769-774):
\* the run ends, stream_chat yields the apology, run_chat returns it
Abort(run, e) ==
    [run EXCEPT !.phase = "failed", !.outcome = "error", !.exc = e,
                !.conn = AsyncWithExit(@),
                !.chunks = IF run.mode = "stream" THEN Append(@, Apology[e]) ELSE @,
                !.reply = IF run.mode = "collect" THEN RunChatExcept(run, e) ELSE @]

\* chat.py generate(), lines 173-202: the server-sent events of a response
SseData(token) == [kind |-> "token", data |-> token]
SseDone == [kind |-> "done", data |-> "[DONE]"]
SseError(e) == [kind |-> "error", data |-> e]

\* a generator that sends the completion signal after every token (mutant)
generateDoneEachToken(run) ==
    [k \in 1..(2 * Len(run.chunks)) |->
        IF k % 2 = 1 THEN SseData(run.chunks[(k + 1) \div 2]) ELSE SseDone]

generate(run) ==
    [k \in 1..Len(run.chunks) |-> SseData(run.chunks[k])]
    \o (CASE run.phase \in {"ended", "failed"} -> <<SseDone>>
          [] run.phase = "escaped" -> <<SseError(run.exc)>>
          [] OTHER -> <<>>)

\* _initialize_tools_for_account, lines 121-148: initialize_holdings_tool,
\* initialize_analysis_tool and initialize_comparison_tool set the account and
\* the service handle the module-level tools read; a later call overwrites them
initialize_tools_for_account(account_id, service) ==
    [n \in BoundTools |-> [account_id |-> account_id, service |-> service]]

\* stream_chat (586-590) or run_chat (745-749) enters _prepare_chat_context,
\* lines 501-530: build the request's services, bind the tools
\* (_initialize_tools_for_account, lines 136-138), then await
\* get_or_create_active_thread
PrepareChatContext(r, account_id, thread_id, mode) ==
    /\ runs[r].phase = "idle"
    /\ \A q \in Runs : q < r => runs[q].phase # "idle"
    /\ EnterGetOrCreate(r, account_id, thread_id)
    /\ bindings' = initialize_tools_for_account(account_id, r)
    /\ runs' = [runs EXCEPT ![r] =
                  [IdleRun EXCEPT !.phase = "resolving", !.req = r, !.mode = mode,
                                  !.account_id = account_id, !.thread_id = thread_id]]
    /\ UNCHANGED <<checkpoints, bridgeVars, toolVars>>

\* lines 532-555 and 595-596 (754-755): the thread is resolved, the
\* checkpointer's connection is opened, the graph is built and compiled with it
BuildGraph(r) ==
    /\ runs[r].phase = "resolving"
    /\ calls[r].pc = "done"
    /\ runs' = [runs EXCEPT ![r].phase = "running", ![r].node = START,
                            ![r].thread = calls[r].ret,
                            ![r].conn = OpenCheckpointer(r)]
    /\ calls' = [calls EXCEPT ![r] = IdleCall]
    /\ UNCHANGED <<threads, now, ticks, started, history, bindings, checkpoints, bridgeVars, toolVars>>

\* thread resolution raised: the `except Exception` of stream_chat (606-611)
\* or run_chat (769-774) answers with the apology text
ResolveFailed(r) ==
    /\ runs[r].phase = "resolving"
    /\ calls[r].pc = "raised"
    /\ runs' = [runs EXCEPT ![r] = Abort(@, TypeError)]
    /\ calls' = [calls EXCEPT ![r] = IdleCall]
    /\ UNCHANGED <<threads, now, ticks, started, history, bindings, checkpoints, bridgeVars, toolVars>>

\* AsyncPostgresSaver.from_conn_string (595, 754) cannot open its connection:
\* the same `except Exception`, before the graph is compiled
CheckpointOpenFails(r) ==
    /\ runs[r].phase = "resolving"
    /\ calls[r].pc = "done"
    /\ runs' = [runs EXCEPT ![r] = Abort([@ EXCEPT !.thread = calls[r].ret],
                                         OperationalError)]
    /\ calls' = [calls EXCEPT ![r] = IdleCall]
    /\ UNCHANGED <<threads, now, ticks, started, history, bindings, checkpoints, bridgeVars, toolVars>>

\* a run that starts from its input alone (mutant)
LoadStateFresh(saved, input) == input

\* AgentState.messages is reduced with add_messages (lines 55-62): the input
\* of a run is appended to the state saved under its key
LoadState(saved, input) == saved \o input

\* graph.astream_events(initial_state, config): the saved state of the key is
\* loaded, the new HumanMessage is appended to it, START leads to the agent node
GraphStart(r) ==
    /\ runs[r].phase = "running"
    /\ runs[r].node = START
    /\ LET messages == LoadState(checkpoints[RunKey(r)], <<HumanMessage>>) IN
         /\ runs' = [runs EXCEPT ![r].messages = messages, ![r].node = "agent"]
         /\ checkpoints' = [checkpoints EXCEPT ![RunKey(r)] = messages]
    /\ UNCHANGED <<threadVars, bindings, bridgeVars, toolVars>>

\* REASON: call_model (lines 175-250) answers, its deltas reach the run's
\* reader, then should_continue routes
CallModel(r) ==
    /\ runs[r].phase = "running"
    /\ runs[r].node = "agent"
    /\ runs[r].steps < MaxSuperSteps
    /\ \E response \in ModelResponses :
         LET messages == Append(runs[r].messages, AIMessage(response))
             stepped == [runs[r] EXCEPT
                           !.messages = messages,
                           !.node = should_continue(messages),
                           !.steps = @ + 1,
                           !.sent = Append(@, SentSummary(runs[r].messages))] IN
         /\ runs' = [runs EXCEPT ![r] = Bridge(stepped, ModelEvents(response))]
         /\ checkpoints' = [checkpoints EXCEPT ![RunKey(r)] = messages]
    /\ UNCHANGED <<threadVars, bindings, bridgeVars, toolVars>>

\* REASON: model_with_tools.invoke raises (lines 252-259), the run aborts
ModelFails(r) ==
    /\ runs[r].phase = "running"
    /\ runs[r].node = "agent"
    /\ runs[r].steps < MaxSuperSteps
    /\ runs' = [runs EXCEPT ![r] =
                  Abort([@ EXCEPT !.sent = Append(@, SentSummary(runs[r].messages))],
                        ModelError)]
    /\ checkpoints' = [checkpoints EXCEPT ![RunKey(r)] = CheckpointOnAbort(@, <<>>)]
    /\ UNCHANGED <<threadVars, bindings, bridgeVars, toolVars>>

\* what the backends of n tool calls may do: at most one of them fails
Backends(n, outcomes) ==
    {b \in [1..n -> outcomes] : Cardinality({k \in 1..n : b[k] = "fails"}) <= 1}

\* ACT: the tools node runs the calls of the latest model output, each tool
\* against what its backend does; the edge tools -> agent follows (line 360).
\* A tool body that raised would end the run through the `except Exception`.
ToolsStep(r, outcomes) ==
    /\ runs[r].phase = "running"
    /\ runs[r].node = "tools"
    /\ runs[r].steps < MaxSuperSteps
    /\ \E backend \in Backends(Len(Last(runs[r].messages).tool_calls), outcomes) :
         LET results == ToolNode(Last(runs[r].messages).tool_calls, backend)
             messages == runs[r].messages \o results
             failures == Cardinality({k \in DOMAIN backend : backend[k] = "fails"})
             ran == [runs[r] EXCEPT !.invoked = @ \cup Invocations(results),
                                    !.tool_failures = @ + failures] IN
         IF \E k \in 1..Len(results) : results[k].content = "raise"
         THEN /\ runs' = [runs EXCEPT ![r] = Abort(ran, ToolException)]
              /\ checkpoints' = [checkpoints EXCEPT ![RunKey(r)] =
                                    CheckpointOnAbort(@, results)]
         ELSE /\ runs' = [runs EXCEPT ![r] =
                            Bridge([ran EXCEPT !.messages = messages,
                                               !.node = "agent",
                                               !.steps = @ + 1],
                                   ToolEvents(results, 1))]
              /\ checkpoints' = [checkpoints EXCEPT ![RunKey(r)] = messages]
    /\ UNCHANGED <<threadVars, bindings, bridgeVars, toolVars>>

\* ACT: the dispatch of the tools node fails after some of the calls ran; the
\* run aborts and the results of the step are not written
DispatchFails(r) ==
    /\ runs[r].phase = "running"
    /\ runs[r].node = "tools"
    /\ runs[r].steps < MaxSuperSteps
    /\ \E n \in 0..(Len(Last(runs[r].messages).tool_calls) - 1) :
         LET done == SubSeq(Last(runs[r].messages).tool_calls, 1, n)
             results == ToolNode(done, [k \in 1..n |-> "ok"]) IN
         /\ runs' = [runs EXCEPT ![r] =
                       Abort([@ EXCEPT !.invoked = @ \cup Invocations(results)],
                             ToolException)]
         /\ checkpoints' = [checkpoints EXCEPT ![RunKey(r)] =
                               CheckpointOnAbort(@, results)]
    /\ UNCHANGED <<threadVars, bindings, bridgeVars, toolVars>>

\* the graph has taken its step limit without reaching END: the library
\* raises, and the run ends through the same `except Exception` as any error
RecursionLimitReached(r) ==
    /\ runs[r].phase = "running"
    /\ runs[r].node \in {"agent", "tools"}
    /\ runs[r].steps = MaxSuperSteps
    /\ runs' = [runs EXCEPT ![r] = Abort([@ EXCEPT !.limit = TRUE],
                                         GraphRecursionError)]
    /\ UNCHANGED <<threadVars, bindings, checkpoints, bridgeVars, toolVars>>

\* the graph reached END: the event stream ends, the `async with` block is
\* left, run_chat returns (final_text, tool_events) (lines 706-710, 762-767)
Finish(r) ==
    /\ runs[r].phase = "running"
    /\ runs[r].node = END
    /\ runs' = [runs EXCEPT ![r].phase = "ended", ![r].outcome = "answer",
                            ![r].conn = AsyncWithExit(@),
                            ![r].reply =
                                IF runs[r].mode = "collect"
                                THEN [final_text |-> Join(runs[r].st.final_text_chunks),
                                      tool_events |-> runs[r].st.tool_events]
                                ELSE @]
    /\ UNCHANGED <<threadVars, bindings, checkpoints, bridgeVars, toolVars>>

\* the consumer of a streaming response stops reading: the generator is closed
\* at the yield it is suspended at (GeneratorExit is no Exception, so the
\* `except Exception` of line 606 does not run), the `async with` block is left
ConsumerStops(r) ==
    /\ runs[r].phase = "running"
    /\ runs[r].mode = "stream"
    /\ runs[r].chunks # <<>>
    /\ runs' = [runs EXCEPT ![r].phase = "cancelled",
                            ![r].conn = AsyncWithExit(@)]
    /\ UNCHANGED <<threadVars, bindings, checkpoints, bridgeVars, toolVars>>

\* The awaited thread resolution of a run proceeds one database round trip at
\* a time. No run reaches the deactivation of a stale thread: line 68 raises
\* before the branch that leads to it, and no run calls close_thread.
\* Streaming requests over backends and a checkpoint store that answer:
AgentStep(r) ==
    \/ \E a \in Accounts, t \in ThreadIdArgs : PrepareChatContext(r, a, t, "stream")
    \/ GetThreadByIdStep(r)
    \/ SelectActiveStep(r)
    \/ UpdateLastActivityStep(r)
    \/ CreateNewThreadStep(r)
    \/ BuildGraph(r)
    \/ ResolveFailed(r)
    \/ GraphStart(r)
    \/ CallModel(r)
    \/ ModelFails(r)
    \/ ToolsStep(r, {"ok"})
    \/ RecursionLimitReached(r)
    \/ Finish(r)
    \/ ConsumerStops(r)

\* Concurrent requests: runs interleave at every await
AgentNext == \E r \in Runs : AgentStep(r)

SpecAgent == Init /\ [][AgentNext]_vars

\* the account of the requests served one after the other
ChatAccounts == {1}

\* the thread_id of such a request: none, or the id of a thread that exists
ChatThreadIds == 0..Len(threads)

\* A request in either mode, with every failure of its environment
ChatStep(r) ==
    \/ \E a \in ChatAccounts, t \in ChatThreadIds, m \in Modes : PrepareChatContext(r, a, t, m)
    \/ GetThreadByIdStep(r)
    \/ SelectActiveStep(r)
    \/ UpdateLastActivityStep(r)
    \/ CreateNewThreadStep(r)
    \/ BuildGraph(r)
    \/ ResolveFailed(r)
    \/ CheckpointOpenFails(r)
    \/ GraphStart(r)
    \/ CallModel(r)
    \/ ModelFails(r)
    \/ ToolsStep(r, BackendOutcomes)
    \/ DispatchFails(r)
    \/ RecursionLimitReached(r)
    \/ Finish(r)
    \/ ConsumerStops(r)

\* no other request is being served
Alone(r) == \A q \in Runs \ {r} : runs[q].phase \notin {"resolving", "running"}

\* Requests served one after the other
ChatNext == \E r \in Runs : Alone(r) /\ ChatStep(r)

SpecChat == Init /\ [][ChatNext]_vars

(***************************************************************************)
(* The two read modes over one event sequence.                             *)
(***************************************************************************)
\* chunk contents a model delta may carry; "" is the delta of a tool-call chunk
TokenDeltas == {"", "Hel", "lo"}

\* names an on_tool_start / on_tool_end event may carry: one of the lookup
\* tables, one the tables do not know
EventToolNames == {"get_portfolio_holdings", "web_search"}

\* the events the graph may produce next; a tool event carries the position
\* of the event as its input or output, so that payloads tell events apart
NextEvents ==
    LET n == Len(events) + 1 IN
    {OnChatModelStream(c) : c \in TokenDeltas}
    \cup {OnToolStart(name, n) : name \in EventToolNames}
    \cup {OnToolEnd(name, n) : name \in EventToolNames}
    \cup {OnChainEnd}

\* graph.astream_events produces its next event
ProduceEvent(e) ==
    /\ Len(events) < MaxEvents
    /\ events' = Append(events, e)
    /\ UNCHANGED <<threadVars, agentVars, toolVars, streamed, collected>>

\* _stream_graph_events takes the next event (lines 412-469)
StreamNext ==
    /\ streamed.pos < Len(events)
    /\ streamed' = [pos |-> streamed.pos + 1,
                    chunks |-> streamed.chunks \o StreamChunks(events[streamed.pos + 1]),
                    tel |-> TraceEvent(streamed.tel, events[streamed.pos + 1],
                                       streamed.pos + 1)]
    /\ UNCHANGED <<threadVars, agentVars, toolVars, events, collected>>

\* _collect_graph_response takes the next event (lines 647-703)
CollectNext ==
    /\ collected.pos < Len(events)
    /\ collected' = [pos |-> collected.pos + 1,
                     st |-> CollectEvent(collected.st, events[collected.pos + 1]),
                     tel |-> TraceEvent(collected.tel, events[collected.pos + 1],
                                        collected.pos + 1)]
    /\ UNCHANGED <<threadVars, agentVars, toolVars, events, streamed>>

BridgeNext ==
    \/ \E e \in NextEvents : ProduceEvent(e)
    \/ StreamNext
    \/ CollectNext

SpecBridge == Init /\ [][BridgeNext]_vars

(***************************************************************************)
(* get_real_time_prices_async: one action per await.                       *)
(***************************************************************************)
\* lines 39-53: the early return for an empty list, else one task per ticker
\* is created and gathered; every task starts at `async with self._semaphore`
GetRealTimePricesAsync(b, tool, n) ==
    /\ batches[b].pc = "idle"
    /\ batches' = [batches EXCEPT ![b] =
          IF n = 0
          THEN [IdleBatch EXCEPT !.pc = "returned", !.tool = tool]
          ELSE [IdleBatch EXCEPT !.pc = "gathering", !.tool = tool, !.n = n,
                                 !.watched = "waiting", !.waiting = n - 1]]
    /\ UNCHANGED <<threadVars, agentVars, bridgeVars, semaphores, voice>>

\* line 72: a task enters `async with self._semaphore` of its tool instance
AcquireSemaphore(b, who) ==
    LET k == batches[b] IN
    /\ k.pc = "gathering"
    /\ semaphores[k.tool] > 0
    /\ IF who = "watched" THEN k.watched = "waiting" ELSE k.waiting > 0
    /\ batches' = [batches EXCEPT ![b] =
          IF who = "watched" THEN [k EXCEPT !.watched = "inflight"]
          ELSE [k EXCEPT !.waiting = @ - 1, !.inflight = @ + 1]]
    /\ semaphores' = [semaphores EXCEPT ![k.tool] = @ - 1]
    /\ UNCHANGED <<threadVars, agentVars, bridgeVars, voice>>

\* lines 73-100: the request of a task in flight ends with `outcome`; the
\* price is stored or the failure is logged, and the task leaves the
\* `async with` block, which releases the semaphore
FetchTickerPrice(b, who, outcome) ==
    LET k == batches[b]
        good == FetchSucceeded(outcome)
        stores == StoresPrice(outcome) IN
    /\ k.pc = "gathering"
    /\ IF who = "watched" THEN k.watched = "inflight" ELSE k.inflight > 0
    /\ batches' = [batches EXCEPT ![b] =
          IF who = "watched"
          THEN [k EXCEPT !.watched = IF good THEN "ok" ELSE "failed",
                         !.price_dict.watched = stores,
                         !.raised = @ \/ EscapesFetch(outcome)]
          ELSE [k EXCEPT !.inflight = @ - 1,
                         !.raised = @ \/ EscapesFetch(outcome),
                         !.ok = IF good THEN @ + 1 ELSE @,
                         !.failed = IF good THEN @ ELSE @ + 1,
                         !.price_dict.others = IF stores THEN @ + 1 ELSE @]]
    /\ semaphores' = [semaphores EXCEPT ![k.tool] = @ + 1]
    /\ UNCHANGED <<threadVars, agentVars, bridgeVars, voice>>

\* lines 53-56: gather(..., return_exceptions=True) is over when every task is,
\* and price_dict is returned
ReturnPrices(b) ==
    LET k == batches[b] IN
    /\ k.pc = "gathering"
    /\ k.watched \in {"ok", "failed"} /\ k.waiting = 0 /\ k.inflight = 0
    /\ batches' = [batches EXCEPT ![b] = [k EXCEPT !.pc = "returned",
                                                   !.result = k.price_dict]]
    /\ UNCHANGED <<threadVars, agentVars, bridgeVars, semaphores, voice>>

\* the steps of batch b when it may be served by one of `tools`
PriceStep(b, tools) ==
    \/ \E tool \in tools, n \in TickerCounts(b) : GetRealTimePricesAsync(b, tool, n)
    \/ \E who \in {"watched", "other"} : AcquireSemaphore(b, who)
    \/ \E who \in {"watched", "other"}, outcome \in FetchOutcomes :
          FetchTickerPrice(b, who, outcome)
    \/ ReturnPrices(b)

\* One batch on one tool instance
PricesNext == PriceStep(1, {1})

SpecPrices == Init /\ [][PricesNext]_vars

\* Two batches at once: of one request (the same tool instance) or of two
\* requests (an instance each)
PricesConcurrentNext == \E b \in PriceBatches : PriceStep(b, {1, b})

SpecPricesConcurrent == Init /\ [][PricesConcurrentNext]_vars

(***************************************************************************)
(* VoiceResponseAdapter._extract_sources.                                  *)
(***************************************************************************)
\* the Articles list of the output of record i of a trace: article j has
\* the Url 10 * i + j, or none where has_url[j] is FALSE
Articles(i, has_url) ==
    [j \in 1..Len(has_url) |-> [Url |-> IF has_url[j] THEN 10 * i + j ELSE None]]

\* which articles of a list of m have a Url: all, none, or all but one
UrlPatterns(m) ==
    {[j \in 1..m |-> TRUE], [j \in 1..m |-> FALSE]}
    \cup {[j \in 1..m |-> j # missing] : missing \in 1..m}

\* the records a tool trace may be extended with as its record i: either
\* name, without a usable output or with a dict that has an Articles list
VoiceEvents(i) ==
    {[name |-> n, output |-> None, Articles |-> <<>>] : n \in VoiceToolNames}
    \cup {[name |-> n, output |-> i, Articles |-> Articles(i, h)] :
             n \in VoiceToolNames,
             h \in UNION {UrlPatterns(m) : m \in 0..MaxArticles}}

\* lines 106-133 for one output: of its first five articles, those with a Url
SourcesOf(articles) ==
    LET first == SubSeq(articles, 1, IF Len(articles) < ARTICLE_LIMIT
                                     THEN Len(articles) ELSE ARTICLE_LIMIT)
        kept == SelectSeq(first, LAMBDA a : a.Url # None) IN
    [j \in 1..Len(kept) |-> [url |-> kept[j].Url]]

RECURSIVE ExtractSources(_)
\* _extract_sources, lines 93-135
ExtractSources(tool_events) ==
    IF tool_events = <<>> THEN <<>>
    ELSE LET event == Head(tool_events) IN
         (IF event.name # "get_market_context" \/ event.output = None
          THEN <<>>
          ELSE SourcesOf(event.Articles))
         \o ExtractSources(Tail(tool_events))

\* VoiceResponseAdapter(final_text, tool_events, ...) is given one more record
VoiceAddEvent(te) ==
    /\ ~voice.done
    /\ Len(voice.tool_events) < MaxVoiceEvents
    /\ voice' = [voice EXCEPT !.tool_events = Append(@, te)]
    /\ UNCHANGED <<threadVars, agentVars, bridgeVars, batches, semaphores>>

\* adapter._extract_sources()
VoiceExtract ==
    /\ ~voice.done
    /\ voice' = [voice EXCEPT !.sources = ExtractSources(voice.tool_events),
                              !.done = TRUE]
    /\ UNCHANGED <<threadVars, agentVars, bridgeVars, batches, semaphores>>

VoiceNext ==
    \/ \E te \in VoiceEvents(Len(voice.tool_events) + 1) : VoiceAddEvent(te)
    \/ VoiceExtract

SpecVoice == Init /\ [][VoiceNext]_vars

(***************************************************************************)
(* Thread manager properties.                                              *)
(***************************************************************************)
IsThreshold(x) == x = INACTIVITY_THRESHOLD

\* C6: starting from an empty store, after any sequence of non-overlapping
\* get_or_create_active_thread and close_thread calls every account has at
\* most one thread with is_active = TRUE.
C6_AtMostOneActivePerAccount ==
    InFlight = {} => \A a \in Accounts : Cardinality(ActiveThreadsOf(a)) <= 1

\* C6 witness: an account whose first thread was closed and replaced
C6_Witness ==
    /\ InFlight = {}
    /\ Len(history) = 2
    /\ history[1].op = "close" /\ history[1].closed
    /\ history[2].op = "get_or_create" /\ history[2].created
    /\ history[2].account_id = history[1].account_id
    /\ \E i, j \in ThreadIds :
         /\ threads[i].account_id = threads[j].account_id
         /\ ~threads[i].is_active /\ threads[j].is_active

\* C7: two get_or_create_active_thread calls for the same account with no
\* thread_id, interleaved at their reads and commits, never both create a
\* thread.
C7_ResolutionSerializedPerAccount ==
    \A c1, c2 \in Callers :
        (/\ c1 # c2
         /\ calls[c1].op = "get_or_create" /\ calls[c2].op = "get_or_create"
         /\ calls[c1].account_id = calls[c2].account_id
         /\ calls[c1].thread_id = None /\ calls[c2].thread_id = None)
        => ~(calls[c1].created /\ calls[c2].created)

\* C8: two successive get_or_create_active_thread calls for the same account
\* with no thread_id, at most 30 minutes apart and with no close_thread in
\* between, return the same thread id, and the second creates no thread.
C8_RepeatedResolutionReturnsSameThread ==
    Len(history) = 2 =>
        LET h1 == history[1]
            h2 == history[2] IN
        (/\ h1.op = "get_or_create" /\ h2.op = "get_or_create"
         /\ h1.account_id = h2.account_id
         /\ h1.thread_id = None /\ h2.thread_id = None
         /\ ~h1.raised
         /\ h2.at - h1.at <= INACTIVITY_THRESHOLD)
        => (~h2.raised /\ h2.ret = h1.ret /\ ~h2.created)

\* C9: the idle comparison is strict: an active thread idle for exactly 30
\* minutes is reused (last_activity bumped, same id returned); one idle for
\* 30 minutes and 1 second is replaced by a new thread.
C9_StrictIdleComparison ==
    \A n \in 1..Len(history) :
        LET h == history[n] IN
        (h.op = "get_or_create" /\ h.seen # None) =>
            /\ IsThreshold(h.idle) =>
                 (/\ ~h.raised /\ h.ret = h.seen /\ ~h.created
                  /\ threads[h.seen].last_activity.t >= h.at)
            /\ IsThreshold(h.idle - 1) =>
                 (/\ ~h.raised /\ h.created /\ h.ret # h.seen
                  /\ ~threads[h.seen].is_active)

\* C10: get_or_create_active_thread(A, thread_id) and close_thread(thread_id, A)
\* never return, bump or deactivate a thread of another account; a thread id
\* owned by another account is treated as not found.
C10_AccountScoped ==
    [][\A c \in Callers :
         calls'[c] # calls[c] =>
           /\ \A i \in ThreadIds :
                threads'[i] # threads[i] => threads[i].account_id = calls[c].account_id
           /\ calls'[c].ret # None =>
                threads'[calls'[c].ret].account_id = calls'[c].account_id
           /\ (/\ calls[c].pc \in {"by_id", "close_by_id"}
               /\ calls[c].thread_id \in ThreadIds
               /\ threads[calls[c].thread_id].account_id # calls[c].account_id)
              => (/\ calls'[c].pc \in {"select", "done"}
                  /\ calls'[c].thread = None
                  /\ ~calls'[c].closed)
      ]_vars

\* C10 witness: calls naming a thread of another account have completed: a
\* close_thread that reported not found, a resolution that created its own
C10_Witness ==
    /\ Len(history) = 2
    /\ \A n \in 1..2 :
         /\ history[n].thread_id \in ThreadIds
         /\ threads[history[n].thread_id].account_id # history[n].account_id
    /\ history[1].op = "close" /\ ~history[1].closed
    /\ history[2].op = "get_or_create" /\ history[2].created
    /\ threads[history[2].thread_id].is_active

\* C11: when get_or_create_active_thread finds the account's most recent active
\* thread idle for more than 30 minutes it deactivates it and then creates a new
\* one: on return the stale thread is inactive and the returned thread is a
\* different, newly created one; a stale thread is never returned.
C11_StaleThreadReplaced ==
    Len(history) > 0 =>
        LET h == Last(history) IN
        (h.op = "get_or_create" /\ h.seen # None /\ h.idle > INACTIVITY_THRESHOLD) =>
            /\ ~h.raised /\ h.created /\ h.ret # None /\ h.ret # h.seen
            /\ ~threads[h.seen].is_active

(***************************************************************************)
(* Agent run properties.                                                   *)
(***************************************************************************)
\* C1: under every interleaving of concurrent chat runs, each tool invocation
\* made by a run executes against that run's own account_id and that run's
\* own request-scoped service handles.
C1_ToolsRunAgainstOwnAccount ==
    \A r \in Runs : \A inv \in runs[r].invoked :
        inv.account_id = runs[r].account_id /\ inv.service = runs[r].req

GraphEdges == {<<START, "agent">>, <<"agent", "tools">>, <<"agent", END>>,
               <<"tools", "agent">>}

\* C2: the run graph only takes the transitions start -> agent, agent -> tools
\* exactly when the latest model output requests at least one tool call,
\* agent -> END otherwise, and tools -> agent; END has no successor.
C2_GraphTransitions ==
    [][\A r \in Runs :
         LET a == runs[r]
             b == runs'[r] IN
         /\ (a.node = "none" /\ b.node # a.node) => b.node = START
         /\ (a.node # "none" /\ b.node # a.node) => <<a.node, b.node>> \in GraphEdges
         /\ (a.node = "agent" /\ b.messages # a.messages) =>
              /\ Last(b.messages).type = "ai"
              /\ b.node = "tools" <=> Last(b.messages).tool_calls # <<>>
              /\ b.node = END <=> Last(b.messages).tool_calls = <<>>
         /\ (a.node = "tools" /\ b.messages # a.messages) => b.node = "agent"
      ]_vars

\* C2 witness: a run that went agent -> tools -> agent -> END
C2_Witness ==
    \E r \in Runs :
        /\ runs[r].node = END
        /\ runs[r].steps = 3
        /\ \E i \in 1..Len(runs[r].messages) : runs[r].messages[i].type = "tool"

\* C3: in every run, also on a thread whose checkpoint holds earlier turns, the
\* list sent to the model in the first REASON step holds exactly one system
\* message, placed first, and no later REASON step of the run injects it again.
C3_ContextMessageOnceFirst ==
    \A r \in Runs : \A n \in 1..Len(runs[r].sent) :
        /\ n = 1 => (runs[r].sent[n].nsys = 1 /\ runs[r].sent[n].sysfirst)
        /\ n > 1 => ~runs[r].sent[n].injected

\* C4: on every agent -> tools transition the tools step appends exactly one
\* tool-result message per tool call of the latest model output, in request
\* order, before control returns to the agent node.
C4_OneResultPerToolCall ==
    [][\A r \in Runs :
         (runs[r].node = "tools" /\ runs'[r].node = "agent") =>
            LET old == runs[r].messages
                new == runs'[r].messages
                requested == Last(old).tool_calls IN
            /\ Len(new) = Len(old) + Len(requested)
            /\ SubSeq(new, 1, Len(old)) = old
            /\ \A k \in 1..Len(requested) :
                 /\ new[Len(old) + k].type = "tool"
                 /\ new[Len(old) + k].name = requested[k]
                 /\ new[Len(old) + k].call = k
      ]_vars

\* C4 witness: a tools step that answered a request of two calls is over
C4_Witness ==
    \E r \in Runs :
        LET m == runs[r].messages IN
        /\ runs[r].node = "agent"
        /\ Len(m) >= 4
        /\ Len(m[Len(m) - 2].tool_calls) = 2
        /\ m[Len(m) - 1].type = "tool" /\ m[Len(m)].type = "tool"

\* C5: the agent/tools cycle is limited by an explicit iteration counter; a run
\* whose model keeps requesting tool calls past the bound is ended with a
\* distinct iteration-limit message, not the generic error message.
C5_IterationLimitMessage ==
    \A r \in Runs : runs[r].limit => runs[r].outcome = "iteration_limit"

(***************************************************************************)
(* Error handling and resource properties of a run.                        *)
(***************************************************************************)
\* C12: when the model call fails during a run_chat run, the failure is caught
\* at the run boundary: the caller gets exactly one apologetic text and an empty
\* tool trace, even if tool events had been collected; no exception escapes.
C12_RunChatModelFailure ==
    \A r \in Runs :
        (runs[r].mode = "collect" /\ runs[r].exc = ModelError) =>
            /\ runs[r].phase = "failed"
            /\ runs[r].reply.final_text = <<Apology[ModelError]>>
            /\ runs[r].reply.tool_events = <<>>

\* C12 witness: the model call failed after a tool had been run and recorded
C12_Witness ==
    \E r \in Runs :
        /\ runs[r].mode = "collect" /\ runs[r].exc = ModelError
        /\ runs[r].st.tool_events # <<>>
        /\ runs[r].st.tool_events[1].output # None

\* C13: when a streaming run fails (model call, thread resolution, checkpoint
\* store), the last chunk the streaming caller receives is the error-tagged one.
C13_StreamEndsWithErrorChunk ==
    \A r \in Runs :
        (runs[r].mode = "stream" /\ runs[r].phase = "failed") =>
            Last(generate(runs[r])).kind = "error"

\* C14: a failure inside a tool's own logic never aborts the run: the tool
\* returns an error payload, the payload is appended as the tool's result
\* message, and the run goes from the tools node back to the agent node.
C14_ToolFailureIsRecovered ==
    [][\A r \in Runs :
         runs'[r].tool_failures > runs[r].tool_failures =>
            LET old == runs[r].messages
                new == runs'[r].messages
                requested == Last(old).tool_calls IN
            /\ runs'[r].phase = "running"
            /\ runs[r].node = "tools" /\ runs'[r].node = "agent"
            /\ Len(new) = Len(old) + Len(requested)
            /\ \A k \in 1..Len(requested) :
                 new[Len(old) + k].type = "tool"
                 /\ new[Len(old) + k].content \in {"Result", "Error"}
            /\ \E k \in 1..Len(requested) : new[Len(old) + k].content = "Error"
      ]_vars

\* C14 witness: a run one of whose tools failed went on and ended with an answer
C14_Witness ==
    \E r \in Runs :
        /\ runs[r].tool_failures > 0
        /\ runs[r].phase = "ended" /\ runs[r].outcome = "answer"
        /\ \E i \in 1..Len(runs[r].messages) : runs[r].messages[i].content = "Error"

\* the text the caller of a failed run is given
ErrorText(run) ==
    IF run.mode = "stream" THEN Last(run.chunks) ELSE run.reply.final_text[1]

\* C15: when thread resolution or opening the checkpoint store fails, the run
\* is aborted before any model or tool call, and the caller receives a single
\* generic error that does not depend on the exception's text.
C15_EarlyFailureGenericError ==
    \A r \in Runs :
        (runs[r].phase = "failed" /\ runs[r].exc \in {TypeError, OperationalError}) =>
            /\ runs[r].sent = <<>> /\ runs[r].invoked = {} /\ runs[r].steps = 0
            /\ \A e \in Exceptions : ErrorText(runs[r]) = Apology[e]

StatusLines ==
    {tool_status_messages[n] : n \in DOMAIN tool_status_messages}
    \cup {tool_completion_messages[n] : n \in DOMAIN tool_completion_messages}

WithoutStatusLines(chunks) == SelectSeq(chunks, LAMBDA c : c \notin StatusLines)

BothModesDone == streamed.pos = Len(events) /\ collected.pos = Len(events)

\* C18: for every finite event sequence (token deltas, tool-start, tool-end in
\* any order) the concatenation of the chunks yielded by streaming mode, with
\* the tool status lines removed, equals the final_text of collection mode
\* for the same sequence.
C18_StreamedTextEqualsFinalText ==
    BothModesDone =>
        Join(WithoutStatusLines(streamed.chunks)) = Join(collected.st.final_text_chunks)

\* C18 witness: a sequence with text, an empty delta and a status line has been
\* read to its end by both modes
C18_Witness ==
    /\ BothModesDone
    /\ \E i, j, k \in 1..Len(events) :
         /\ events[i].event = "on_chat_model_stream" /\ events[i].content # ""
         /\ events[j].event = "on_chat_model_stream" /\ events[j].content = ""
         /\ events[k].event = "on_tool_end" /\ events[k].name \in DOMAIN tool_completion_messages
    /\ collected.st.final_text_chunks # <<>>
    /\ \E n \in 1..Len(streamed.chunks) : streamed.chunks[n] \in StatusLines

RECURSIVE NeverNegative(_, _, _)
\* no prefix of the integer sequence d, read from entry k, sums below -open
NeverNegative(d, k, open) ==
    IF k > Len(d) THEN TRUE
    ELSE open + d[k] >= 0 /\ NeverNegative(d, k + 1, open + d[k])

\* in q, no entry of `ends` is met when no entry of `starts` is still open
EndsAfterStarts(q, starts, ends) ==
    (\E n \in 1..Len(q) : q[n] \in ends) =>
        NeverNegative([k \in 1..Len(q) |->
                          IF q[k] \in starts THEN 1 ELSE IF q[k] \in ends THEN 0 - 1 ELSE 0],
                      1, 0)

\* the on_tool_start events of a sequence, in order
StartsOf(evs) == SelectSeq(evs, LAMBDA e : e.event = "on_tool_start")

C20_StreamingChunksPerEvent ==
    [][streamed'.pos # streamed.pos =>
         LET e == events[streamed'.pos]
             before == streamed.chunks
             after == streamed'.chunks
             added == SubSeq(after, Len(before) + 1, Len(after)) IN
         /\ streamed'.pos = streamed.pos + 1
         /\ Len(after) >= Len(before) /\ SubSeq(after, 1, Len(before)) = before
         /\ (e.event = "on_chat_model_stream" /\ e.content # "") => added = <<e.content>>
         /\ (e.event = "on_tool_start" /\ e.name \in DOMAIN tool_status_messages) =>
              (added = <<tool_status_messages[e.name]>> /\ added[1] \in StatusLines)
         /\ (e.event = "on_tool_end" /\ e.name \in DOMAIN tool_completion_messages) =>
              (added = <<tool_completion_messages[e.name]>> /\ added[1] \in StatusLines)
         /\ (e.event \in {"on_tool_start", "on_tool_end"}
             /\ e.name \notin DOMAIN tool_status_messages) => added = <<>>
         /\ (e.event = "on_chat_model_stream" /\ e.content = "") => added = <<>>
         /\ e.event \notin {"on_chat_model_stream", "on_tool_start", "on_tool_end"} =>
              added = <<>>
      ]_vars

\* C20 witness: a delta, a known tool's start and end, and an unknown tool's
\* event have all been streamed, and gave exactly three chunks
C20_Witness ==
    /\ streamed.pos = Len(events)
    /\ Len(events) = 4
    /\ events[1] = OnToolStart("get_portfolio_holdings", 1)
    /\ events[2].event = "on_tool_start" /\ events[2].name = "web_search"
    /\ events[3] = OnToolEnd("get_portfolio_holdings", 3)
    /\ events[4] = OnChatModelStream("Hel")
    /\ streamed.chunks = <<tool_status_messages["get_portfolio_holdings"],
                           tool_completion_messages["get_portfolio_holdings"], "Hel">>

(***************************************************************************)
(* Market data and voice adapter properties.                               *)
(***************************************************************************)
\* sub-fetches of batch b that hold a slot: between entering and leaving
\* `async with self._semaphore`
InFlightOf(b) == batches[b].inflight + (IF batches[b].watched = "inflight" THEN 1 ELSE 0)

\* sub-fetches that hold a slot of the semaphore of one tool instance
InFlightOn(tool) ==
    LET served == {b \in PriceBatches : batches[b].tool = tool} IN
    (IF 1 \in served THEN InFlightOf(1) ELSE 0) + (IF 2 \in served THEN InFlightOf(2) ELSE 0)

\* C23: in a concurrent price batch a failure of any subset of the per-ticker
\* fetches (exception, non-200 status, no parsable price) does not affect the
\* others: the keys of the returned map are exactly the tickers whose fetch
\* succeeded, failed tickers are absent, and no exception escapes the batch.
C23_FailedFetchesIsolated ==
    \A b \in PriceBatches :
        LET k == batches[b] IN
        /\ ~k.raised
        /\ k.price_dict.watched = (k.watched = "ok")
        /\ k.price_dict.others = k.ok
        /\ k.pc = "gathering" =>
             /\ k.waiting + k.inflight + k.ok + k.failed = k.n - 1
             /\ semaphores[k.tool] + InFlightOn(k.tool) = SEMAPHORE_LIMIT
        /\ k.pc = "returned" =>
             /\ k.result = [watched |-> k.watched = "ok", others |-> k.ok]
             /\ k.n > 0 => k.ok + k.failed = k.n - 1
             /\ semaphores[k.tool] + InFlightOn(k.tool) = SEMAPHORE_LIMIT

\* C23 witness: a batch longer than the semaphore is wide has returned; the
\* watched ticker failed, of the others some failed and some are in the map
C23_Witness ==
    /\ batches[1].pc = "returned"
    /\ batches[1].n = MaxTickers
    /\ batches[1].watched = "failed"
    /\ batches[1].failed >= 2
    /\ batches[1].ok >= 2
    /\ batches[1].result = [watched |-> FALSE, others |-> batches[1].ok]

\* C24: at no moment are more than 10 per-ticker price requests in flight,
\* for any number of tickers in a batch and any number of batches running
\* concurrently.
C24_AtMostTenInFlight ==
    InFlightOf(1) + InFlightOf(2) <= SEMAPHORE_LIMIT

\* the Urls of the articles of the get_market_context records of a trace
MarketContextUrls(tool_events) ==
    UNION {{tool_events[i].Articles[j].Url : j \in 1..Len(tool_events[i].Articles)} :
             i \in {e \in 1..Len(tool_events) :
                      tool_events[e].name = "get_market_context"
                      /\ tool_events[e].output # None}} \ {None}

\* C30: _extract_sources returns at most 5 sources for any tool trace, taken
\* only from get_market_context outputs and skipping articles without a URL.
C30_AtMostFiveSources ==
    voice.done =>
        /\ Len(voice.sources) <= ARTICLE_LIMIT
        /\ \A k \in 1..Len(voice.sources) :
             voice.sources[k].url \in MarketContextUrls(voice.tool_events)

(***************************************************************************)
(* Thread resolution never fails; what the checkpoint store holds.         *)
(***************************************************************************)
\* C25: for an account that already has an active thread,
\* get_or_create_active_thread called with no thread_id (or with a thread_id
\* that is not found or inactive) always completes by returning a thread, the
\* reused one or a new one; computing the idle time never makes it fail.
C25_IdleTimeNeverFails ==
    \A n \in 1..Len(history) :
        LET h == history[n] IN
        (h.op = "get_or_create" /\ h.seen # None) =>
            /\ ~h.raised
            /\ h.ret \in 1..Len(threads)
            /\ h.ret = h.seen \/ h.created

\* the positions of the completion signal in a response
DonePositions(out) == {k \in 1..Len(out) : out[k].kind = "done"}

\* C21: every streaming response ends with the terminal marker: the [DONE]
\* chunk is emitted exactly once, as the last chunk of the stream, and no
\* token, status or error chunk follows it.
C21_DoneOnceAndLast ==
    [][\A r \in Runs : runs'[r].mode = "stream" =>
          LET before == generate(runs[r])
              out == generate(runs'[r]) IN
          /\ DonePositions(out) \subseteq {Len(out)}
          /\ runs'[r].phase \in {"ended", "failed"} => DonePositions(out) = {Len(out)}
          /\ (runs[r].mode = "stream" /\ DonePositions(before) # {}) => out = before
      ]_vars

\* C21 witness: one streamed response ended after status lines and text, one
\* after the apology of a failed run; the last chunk of each is [DONE]
C21_Witness ==
    \E r, q \in Runs :
        /\ runs[r].mode = "stream" /\ runs[r].phase = "ended"
        /\ Len(generate(runs[r])) >= 5
        /\ Last(generate(runs[r])) = SseDone
        /\ runs[q].mode = "stream" /\ runs[q].phase = "failed"
        /\ Len(generate(runs[q])) >= 2
        /\ Last(generate(runs[q])) = SseDone

(***************************************************************************)
(* The tool trace of collection mode; spans and metrics of the bridge.     *)
(***************************************************************************)
\* C22: in collection mode the tool trace has exactly one record per
\* tool-start event, in start order, each initially with output unset; each
\* tool-end event sets the output of the most recent record of the same name
\* that is still unmatched, and of no other record; an output that was set is
\* never overwritten by a later end event.
C22_ToolTracePairing ==
    [][collected'.pos # collected.pos =>
         LET e == events[collected'.pos]
             before == collected.st.tool_events
             after == collected'.st.tool_events
             open == {i \in 1..Len(before) :
                        before[i].name = e.name /\ before[i].output = None} IN
         /\ Len(after) = Len(StartsOf(SubSeq(events, 1, collected'.pos)))
         /\ \A i \in 1..Len(before) :
              /\ after[i].name = before[i].name /\ after[i].input = before[i].input
              /\ before[i].output # None => after[i].output = before[i].output
         /\ e.event = "on_tool_start" =>
              after = Append(before, [name |-> e.name, input |-> e.input, output |-> None])
         /\ e.event = "on_tool_end" =>
              /\ Len(after) = Len(before)
              /\ \A i \in 1..Len(before) :
                   IF i \in open /\ \A j \in open : j <= i
                   THEN after[i].output = e.output
                   ELSE after[i].output = before[i].output
         /\ e.event \notin {"on_tool_start", "on_tool_end"} => after = before
      ]_vars

\* C22 witness: two executions of one tool overlap; the first end was given
\* to the second record, the second end to the first record
C22_Witness ==
    /\ collected.pos = 4
    /\ events[1] = OnToolStart("get_portfolio_holdings", 1)
    /\ events[2] = OnToolStart("get_portfolio_holdings", 2)
    /\ events[3] = OnToolEnd("get_portfolio_holdings", 3)
    /\ events[4] = OnToolEnd("get_portfolio_holdings", 4)
    /\ collected.st.tool_events =
         <<[name |-> "get_portfolio_holdings", input |-> 1, output |-> 4],
           [name |-> "get_portfolio_holdings", input |-> 2, output |-> 3]>>

\* every execution of the sequence is over: for each name the ends follow
\* their starts and there are as many ends as starts
AllExecutionsOver(evs) ==
    \A name \in EventToolNames :
        LET starts == {k \in 1..Len(evs) :
                         evs[k].event = "on_tool_start" /\ evs[k].name = name}
            ends == {k \in 1..Len(evs) :
                       evs[k].event = "on_tool_end" /\ evs[k].name = name} IN
        /\ Cardinality(starts) = Cardinality(ends)
        /\ \A n \in 1..Len(evs) :
             Cardinality({k \in ends : k <= n}) <= Cardinality({k \in starts : k <= n})

\* by the end of the stream every span that was started has been ended and
\* every execution of a name has its metric
SpansClosed(tel, evs) ==
    /\ tel.started = {k \in 1..Len(evs) : evs[k].event = "on_tool_start"}
    /\ tel.ended = tel.started
    /\ \A name \in EventToolNames :
         Cardinality({k \in 1..Len(tel.metrics) : tel.metrics[k] = name})
           = Cardinality({k \in 1..Len(evs) :
                            evs[k].event = "on_tool_start" /\ evs[k].name = name})

\* C29: for every tool execution observed by the event bridge, in both modes
\* and including two overlapping executions of the same tool name, one span is
\* started at its tool-start event and that same span is ended, with exactly
\* one duration/outcome metric recorded under the tool's name, by the time the
\* event stream ends; no started span is left open and no execution is left
\* without a metric.
C29_SpanAndMetricPerExecution ==
    (BothModesDone /\ AllExecutionsOver(events)) =>
        /\ SpansClosed(streamed.tel, events)
        /\ SpansClosed(collected.tel, events)

(***************************************************************************)
(* What later runs load: pairing, memory, keys.                            *)
(***************************************************************************)
\* every agent message of the list that requests tool calls is followed at
\* once by one tool-result message per requested call
ToolCallsAnswered(messages) ==
    \A i \in 1..Len(messages) :
        (messages[i].type = "ai" /\ messages[i].tool_calls # <<>>) =>
            \A k \in 1..Len(messages[i].tool_calls) :
                /\ i + k <= Len(messages)
                /\ messages[i + k].type = "tool"

\* the runs that are over: answered, failed, or left by their consumer
Over(r) == runs[r].phase \in {"ended", "failed", "cancelled"}

\* C26: in every state stored under a checkpoint key, at the end of every run
\* whether it succeeded or aborted, each agent message that requests tool
\* calls is followed by one tool-result message per requested call before the
\* next human message; an aborted run never leaves the thread holding an agent
\* tool-call request without its results for later runs to load.
C26_NoDanglingToolCall ==
    \A r \in Runs :
        (Over(r) /\ runs[r].thread # None) => ToolCallsAnswered(checkpoints[RunKey(r)])

\* the run before r that resolved to the same account and thread, if any
PreviousRunOf(r) ==
    {p \in Runs : /\ p < r /\ Over(p)
                  /\ runs[p].thread # None
                  /\ runs[p].account_id = runs[r].account_id
                  /\ runs[p].thread = runs[r].thread}

\* the messages of a list that are not the system prompt
History(input) == SelectSeq(input, LAMBDA m : m.type # "system")

\* C27: prior turns are remembered across a session: two consecutive runs that
\* resolve to the same (account, thread) use the same checkpoint key, and the
\* message history given to the second run's first REASON step consists of the
\* first run's final message list followed by the new human message.
C27_SecondRunSeesFirstRun ==
    [][\A r \in Runs : \A p \in PreviousRunOf(r) :
          /\ RunKey(p) = RunKey(r)
          /\ (runs[r].phase = "running" /\ runs[r].node = "agent" /\ runs[r].steps = 0
              /\ runs'[r].sent # runs[r].sent) =>
                /\ History(LLMInput(runs[r].messages)) = runs[p].messages \o <<HumanMessage>>
                /\ Last(runs'[r].sent) = SentSummary(runs[p].messages \o <<HumanMessage>>)
      ]_vars

\* C27 witness: the first run answered after a tool call; the second run, on
\* the same thread, has made its first model call with that turn in front of
\* its question
C27_Witness ==
    /\ runs[1].phase = "ended" /\ Len(runs[1].messages) = 4
    /\ runs[2].thread = runs[1].thread /\ runs[2].account_id = runs[1].account_id
    /\ runs[2].steps = 1
    /\ Len(runs[2].sent) = 1
    /\ SubSeq(runs[2].messages, 1, 5) = runs[1].messages \o <<HumanMessage>>

\* ids with one, two and three digits, among them pairs whose digits run
\* together alike
KeyIds == {1, 2, 11, 12, 21, 112}

\* pairs of those ids that differ have keys that differ
KeysDifferOnKeyIds ==
    \A a, b \in KeyIds, t, u \in KeyIds :
        CheckpointKey(a, t) = CheckpointKey(b, u) => (a = b /\ t = u)

\* C28: the checkpoint key is an injective function of (account_id,
\* thread_id): two runs whose pairs differ never use the same key, so a run
\* never loads or appends state belonging to another account or thread.
C28_CheckpointKeyInjective ==
    [][/\ KeysDifferOnKeyIds
       /\ \A r, q \in Runs :
            (runs'[r].thread # None /\ runs'[q].thread # None
             /\ CheckpointKey(runs'[r].account_id, runs'[r].thread)
                   = CheckpointKey(runs'[q].account_id, runs'[q].thread)) =>
                (runs'[r].account_id = runs'[q].account_id
                 /\ runs'[r].thread = runs'[q].thread)
       /\ \A a \in Accounts, t \in 1..MaxThreads :
            checkpoints'[CheckpointKey(a, t)] # checkpoints[CheckpointKey(a, t)] =>
                \E r \in Runs :
                    /\ runs[r].account_id = a /\ runs[r].thread = t
                    /\ runs[r].phase = "running"
                    /\ threads[t].account_id = a
      ]_vars

\* C28 witness: two runs of two accounts have each saved state under a key
\* of their own
C28_Witness ==
    /\ runs[1].thread # None /\ runs[2].thread # None
    /\ runs[1].account_id # runs[2].account_id
    /\ RunKey(1) # RunKey(2)
    /\ Len(checkpoints[RunKey(1)]) >= 2
    /\ Len(checkpoints[RunKey(2)]) >= 2

====
